---- MODULE Spec2Model ----
(***************************************************************************)
(* A model of app/scrapers/Youtube_Scraper.py: the YouTubeScraper client   *)
(* (construction, feed fetch with retry, entry normalisation, the four     *)
(* public accessors, caption retrieval) and the pure function              *)
(* _extract_video_id.                                                      *)
(*                                                                         *)
(* Python strings are sequences of one-character strings, so that          *)
(* concatenation, lstrip, join, substring tests and regular-expression     *)
(* search are computed and not assumed.  Python's None is the sequence     *)
(* NoneVal, whose only element is not a character.                         *)
(***************************************************************************)
EXTENDS Integers, Sequences, FiniteSets, TLC

VARIABLES
    ctor,       \* the constructor call: its arguments and its outcome
    client,     \* the YouTubeScraper instance the calls are made on
    pc,         \* position of the current call: "idle", "feed", "transcript", "done"
    call,       \* the operation being called and its arguments
    now,        \* the reading of datetime.now(timezone.utc) of the current call, in hours
    attempts,   \* outcome of every feedparser.parse attempt of the current call, in order
    requests,   \* every request sent to the caption service by the current call, in order
    result,     \* what the current call gave its caller: a return value or an exception
    xurl,       \* argument of a direct _extract_video_id call
    xres        \* its outcome

vars == <<ctor, client, pc, call, now, attempts, requests, result, xurl, xres>>

----------------------------------------------------------------------------
(* Values *)

NoneVal == <<"None">>

\* Python truthiness of an Optional[str]: None and "" are falsy
Truthy(s) == s # NoneVal /\ s # <<>>

\* an exception object: its class, what it reports, and the feed attempt during
\* which it was created (0 when it was created elsewhere)
Exception(type, msg, origin) == [type |-> type, msg |-> msg, origin |-> origin]
NoExc == Exception("-", "-", 0)

\* the outcome of a call: a returned value with its Python type, or a raised exception
Return(type, v) == [kind |-> "return", type |-> type, value |-> v, exc |-> NoExc]
ReturnNone == Return("NoneType", NoneVal)
Raise(e) == [kind |-> "raise", type |-> "-", value |-> NoneVal, exc |-> e]
Pending == [kind |-> "pending", type |-> "-", value |-> NoneVal, exc |-> NoExc]

----------------------------------------------------------------------------
(* _extract_video_id *)

\* the character class [0-9A-Za-z_-]
IdChars ==
    {"0", "1", "2", "3", "4", "5", "6", "7", "8", "9",
     "A", "B", "C", "D", "E", "F", "G", "H", "I", "J", "K", "L", "M",
     "N", "O", "P", "Q", "R", "S", "T", "U", "V", "W", "X", "Y", "Z",
     "a", "b", "c", "d", "e", "f", "g", "h", "i", "j", "k", "l", "m",
     "n", "o", "p", "q", "r", "s", "t", "u", "v", "w", "x", "y", "z",
     "_", "-"}

\* the repetition count {11}
IdLen == 11

\* the literal lit occurs in s at position i
LitAt(s, i, lit) ==
    /\ i + Len(lit) - 1 <= Len(s)
    /\ \A k \in 1..Len(lit) : s[i + k - 1] = lit[k]

\* ([0-9A-Za-z_-]{11}) matches in s at position j
GroupAt(s, j) ==
    /\ j + IdLen - 1 <= Len(s)
    /\ \A k \in 0..(IdLen - 1) : s[j + k] \in IdChars

\* (?:alt1|alt2|...)([0-9A-Za-z_-]{11}) matches in s at position i
AltMatchAt(s, i, alts) ==
    \E a \in 1..Len(alts) : LitAt(s, i, alts[a]) /\ GroupAt(s, i + Len(alts[a]))

\* the alternative the regex engine takes at position i: the first that matches
AltTaken(s, i, alts) ==
    CHOOSE a \in 1..Len(alts) :
        /\ LitAt(s, i, alts[a]) /\ GroupAt(s, i + Len(alts[a]))
        /\ \A b \in 1..(a - 1) : ~(LitAt(s, i, alts[b]) /\ GroupAt(s, i + Len(alts[b])))

\* re.search(pattern, url): the leftmost match, and match.group(1); NoneVal when
\* there is no match.  A trailing .* changes neither.
ReSearchGroup1(alts, s) ==
    IF \E i \in 1..Len(s) : AltMatchAt(s, i, alts)
    THEN LET i == CHOOSE p \in 1..Len(s) :
                      /\ AltMatchAt(s, p, alts)
                      /\ \A q \in 1..(p - 1) : ~AltMatchAt(s, q, alts)
             j == i + Len(alts[AltTaken(s, i, alts)])
         IN SubSeq(s, j, j + IdLen - 1)
    ELSE NoneVal

\* the three patterns, each as the alternatives of its non-capturing group:
\*   (?:v=|\/)([0-9A-Za-z_-]{11}).*
\*   (?:embed\/)([0-9A-Za-z_-]{11})
\*   (?:youtu\.be\/)([0-9A-Za-z_-]{11})
patterns ==
    << << <<"v", "=">>, <<"/">> >>,
       << <<"e", "m", "b", "e", "d", "/">> >>,
       << <<"y", "o", "u", "t", "u", ".", "b", "e", "/">> >> >>

\* for pattern in patterns: match = re.search(pattern, url); if match: return group(1)
\* raise ValueError
ExtractVideoId(url) ==
    IF \E p \in 1..Len(patterns) : ReSearchGroup1(patterns[p], url) # NoneVal
    THEN LET p == CHOOSE n \in 1..Len(patterns) :
                      /\ ReSearchGroup1(patterns[n], url) # NoneVal
                      /\ \A m \in 1..(n - 1) : ReSearchGroup1(patterns[m], url) = NoneVal
         IN Return("str", ReSearchGroup1(patterns[p], url))
    ELSE Raise(Exception("ValueError", "Could not extract video ID from URL", 0))

----------------------------------------------------------------------------
(* URLs the extraction is applied to *)

\* identifiers: the two of the tests and one made of the class's other characters
VideoIds == { <<"j", "N", "Q", "X", "A", "C", "9", "I", "V", "R", "w">>, <<"d", "Q", "w", "4", "w", "9", "W", "g", "X", "c", "Q">>, <<"a", "-", "b", "_", "c", "-", "d", "_", "e", "-", "0">> }

\* text before v= in a watch URL
WatchPrefixes ==
    { <<"h", "t", "t", "p", "s", ":", "/", "/", "w", "w", "w", ".", "y", "o", "u", "t", "u", "b", "e", ".", "c", "o", "m", "/", "w", "a", "t", "c", "h", "?">>,
      <<"h", "t", "t", "p", "s", ":", "/", "/", "w", "w", "w", ".", "y", "o", "u", "t", "u", "b", "e", ".", "c", "o", "m", "/", "w", "a", "t", "c", "h", "?", "f", "e", "a", "t", "u", "r", "e", "=", "s", "h", "a", "r", "e", "&">>,
      <<"h", "t", "t", "p", "s", ":", "/", "/", "m", ".", "y", "o", "u", "t", "u", "b", "e", ".", "c", "o", "m", "/", "w", "a", "t", "c", "h", "?", "a", "p", "p", "=", "d", "e", "s", "k", "t", "o", "p", "&">>,
      <<"y", "o", "u", "t", "u", "b", "e", ".", "c", "o", "m", "/", "w", "a", "t", "c", "h", "?">>,
      <<"h", "t", "t", "p", "s", ":", "/", "/", "w", "e", "b", ".", "a", "r", "c", "h", "i", "v", "e", ".", "o", "r", "g", "/", "w", "e", "b", "/", "2", "0", "2", "3", "0", "1", "0", "1", "0", "0", "0", "0", "0", "0", "/", "h", "t", "t", "p", "s", ":", "/", "/", "w", "w", "w", ".", "y", "o", "u", "t", "u", "b", "e", ".", "c", "o", "m", "/", "w", "a", "t", "c", "h", "?">> }

\* text before the identifier in an embed URL
EmbedPrefixes ==
    { <<"h", "t", "t", "p", "s", ":", "/", "/", "w", "w", "w", ".", "y", "o", "u", "t", "u", "b", "e", ".", "c", "o", "m", "/", "e", "m", "b", "e", "d", "/">>,
      <<"h", "t", "t", "p", "s", ":", "/", "/", "w", "w", "w", ".", "y", "o", "u", "t", "u", "b", "e", "-", "n", "o", "c", "o", "o", "k", "i", "e", ".", "c", "o", "m", "/", "e", "m", "b", "e", "d", "/">> }

\* text before the identifier in a short URL
ShortPrefixes == { <<"h", "t", "t", "p", "s", ":", "/", "/", "y", "o", "u", "t", "u", ".", "b", "e", "/">>, <<"y", "o", "u", "t", "u", ".", "b", "e", "/">> }

\* text after the identifier
WatchSuffixes == { <<>>, <<"&", "t", "=", "1", "0", "s">>, <<"&", "f", "e", "a", "t", "u", "r", "e", "=", "s", "h", "a", "r", "e">>, <<"&", "l", "i", "s", "t", "=", "P", "L", "O", "U", "2", "X", "L", "Y", "x", "m", "s", "I", "L">> }
PathSuffixes == { <<>>, <<"?", "t", "=", "3", "0">>, <<"?", "s", "t", "a", "r", "t", "=", "3", "0", "&", "a", "u", "t", "o", "p", "l", "a", "y", "=", "1">> }

V_EQ == <<"v", "=">>

UrlsWithId ==
    {p \o V_EQ \o id \o s : p \in WatchPrefixes, id \in VideoIds, s \in WatchSuffixes}
    \cup {p \o id \o s : p \in EmbedPrefixes \cup ShortPrefixes, id \in VideoIds,
                         s \in PathSuffixes}

\* URLs with no identifier after v=, /embed/ or youtu.be/
UrlsWithoutId ==
    { <<>>,
      <<"h", "t", "t", "p", "s", ":", "/", "/", "w", "w", "w", ".", "y", "o", "u", "t", "u", "b", "e", ".", "c", "o", "m", "/">>,
      <<"h", "t", "t", "p", "s", ":", "/", "/", "w", "w", "w", ".", "y", "o", "u", "t", "u", "b", "e", ".", "c", "o", "m", "/", "@", "G", "o", "o", "g", "l", "e", "D", "e", "v", "e", "l", "o", "p", "e", "r", "s">>,
      <<"h", "t", "t", "p", "s", ":", "/", "/", "w", "w", "w", ".", "y", "o", "u", "t", "u", "b", "e", ".", "c", "o", "m", "/", "c", "h", "a", "n", "n", "e", "l", "/", "U", "C", "_", "x", "5", "X", "G", "1", "O", "V", "2", "P", "6", "u", "Z", "Z", "5", "F", "S", "M", "9", "T", "t", "w">>,
      <<"h", "t", "t", "p", "s", ":", "/", "/", "w", "w", "w", ".", "y", "o", "u", "t", "u", "b", "e", ".", "c", "o", "m", "/", "G", "o", "o", "g", "l", "e", "D", "e", "v", "e", "l", "o", "p", "e", "r", "s">>,
      <<"h", "t", "t", "p", "s", ":", "/", "/", "w", "w", "w", ".", "y", "o", "u", "t", "u", "b", "e", ".", "c", "o", "m", "/", "p", "l", "a", "y", "l", "i", "s", "t", "?", "l", "i", "s", "t", "=", "P", "L", "O", "U", "2", "X", "L", "Y", "x", "m", "s", "I", "L">>,
      <<"h", "t", "t", "p", "s", ":", "/", "/", "w", "w", "w", ".", "y", "o", "u", "t", "u", "b", "e", ".", "c", "o", "m", "/", "p", "l", "a", "y", "l", "i", "s", "t", "?", "l", "i", "s", "t", "=", "P", "L", "O", "U", "2", "X", "L", "Y", "x", "m", "s", "I", "L", "V", "T", "i", "O", "l", "M", "J", "d", "o", "7", "R", "Q", "S", "5", "5", "j", "Y", "h", "s", "M", "i">>,
      <<"h", "t", "t", "p", "s", ":", "/", "/", "w", "w", "w", ".", "y", "o", "u", "t", "u", "b", "e", ".", "c", "o", "m", "/", "f", "e", "e", "d", "s", "/", "v", "i", "d", "e", "o", "s", ".", "x", "m", "l", "?", "c", "h", "a", "n", "n", "e", "l", "_", "i", "d", "=", "U", "C", "_", "x", "5", "X", "G", "1", "O", "V", "2", "P", "6", "u", "Z", "Z", "5", "F", "S", "M", "9", "T", "t", "w">>,
      <<"h", "t", "t", "p", "s", ":", "/", "/", "w", "w", "w", ".", "y", "o", "u", "t", "u", "b", "e", ".", "c", "o", "m", "/", "f", "e", "e", "d", "s", "/", "v", "i", "d", "e", "o", "s", ".", "x", "m", "l", "?", "u", "s", "e", "r", "=", "G", "o", "o", "g", "l", "e", "D", "e", "v", "e", "l", "o", "p", "e", "r", "s">>,
      <<"h", "t", "t", "p", "s", ":", "/", "/", "w", "w", "w", ".", "y", "o", "u", "t", "u", "b", "e", ".", "c", "o", "m", "/", "w", "a", "t", "c", "h", "?", "v", "=", "t", "o", "o", "s", "h", "o", "r", "t">>,
      <<"h", "t", "t", "p", "s", ":", "/", "/", "w", "w", "w", ".", "y", "o", "u", "t", "u", "b", "e", ".", "c", "o", "m", "/", "w", "a", "t", "c", "h", "?", "v", "=", "i", "n", "v", "a", "l", "i", "d", " ", "v", "i", "d", "e", "o">>,
      <<"h", "t", "t", "p", "s", ":", "/", "/", "w", "w", "w", ".", "y", "o", "u", "t", "u", "b", "e", ".", "c", "o", "m", "/", "r", "e", "s", "u", "l", "t", "s", "?", "s", "e", "a", "r", "c", "h", "_", "q", "u", "e", "r", "y", "=", "c", "a", "t", "s">>,
      <<"h", "t", "t", "p", "s", ":", "/", "/", "y", "o", "u", "t", "u", ".", "b", "e", "/">>,
      <<"h", "t", "t", "p", "s", ":", "/", "/", "w", "w", "w", ".", "y", "o", "u", "t", "u", "b", "e", ".", "c", "o", "m", "/", "e", "m", "b", "e", "d", "/">> }

ExtractInputs == UrlsWithId \cup UrlsWithoutId

----------------------------------------------------------------------------
(* YouTubeScraper.__init__ and _build_rss_url *)

\* the two f-string prefixes of _build_rss_url
FeedUrlChannelId == <<"h", "t", "t", "p", "s", ":", "/", "/", "w", "w", "w", ".", "y", "o", "u", "t", "u", "b", "e", ".", "c", "o", "m", "/", "f", "e", "e", "d", "s", "/", "v", "i", "d", "e", "o", "s", ".", "x", "m", "l", "?", "c", "h", "a", "n", "n", "e", "l", "_", "i", "d", "=">>
FeedUrlUser == <<"h", "t", "t", "p", "s", ":", "/", "/", "w", "w", "w", ".", "y", "o", "u", "t", "u", "b", "e", ".", "c", "o", "m", "/", "f", "e", "e", "d", "s", "/", "v", "i", "d", "e", "o", "s", ".", "x", "m", "l", "?", "u", "s", "e", "r", "=">>

\* a strip that removes one leading occurrence only
LStripOne(s, c) == IF s # <<>> /\ Head(s) = c THEN Tail(s) ELSE s

\* str.lstrip(chars) for a one-character chars: every leading occurrence is removed
RECURSIVE LStrip(_, _)
LStrip(s, c) ==
    IF s # <<>> /\ Head(s) = c THEN LStrip(Tail(s), c) ELSE s

\* _build_rss_url: the address of the channel's feed, or None
BuildRssUrl(channel_id, channel_username) ==
    IF Truthy(channel_id)
    THEN FeedUrlChannelId \o channel_id
    ELSE IF Truthy(channel_username)
         THEN FeedUrlUser \o LStrip(channel_username, "@")
         ELSE NoneVal

\* self.rss_url = rss_url or self._build_rss_url()
ResolveRssUrl(a) ==
    IF Truthy(a.rss_url) THEN a.rss_url ELSE BuildRssUrl(a.channel_id, a.channel_username)

\* __init__: the instance, or ValueError when no address was resolved
Construct(a) ==
    IF ~Truthy(ResolveRssUrl(a))
    THEN Raise(Exception("ValueError", "Must provide either channel_id, channel_username, or rss_url", 0))
    ELSE Return("YouTubeScraper",
           [channel_id |-> a.channel_id,
            channel_username |-> a.channel_username,
            rss_url |-> ResolveRssUrl(a),
            timeout |-> a.timeout,
            max_retries |-> a.max_retries])

\* default of the timeout parameter
DefaultTimeout == 10

\* longest channel_username the constructor is given
MaxNameLen == 3

\* largest max_retries the constructor is given
MaxRetries == 3

ChannelIdArgs == { NoneVal, <<>>, <<"U", "C", "_", "x", "5", "X", "G", "1", "O", "V", "2", "P", "6", "u", "Z", "Z", "5", "F", "S", "M", "9", "T", "t", "w">> }
UsernameArgs ==
    {NoneVal} \cup UNION {[1..n -> {"@", "G"}] : n \in 0..MaxNameLen}
RssUrlArgs ==
    { NoneVal, <<>>, <<"h", "t", "t", "p", "s", ":", "/", "/", "w", "w", "w", ".", "y", "o", "u", "t", "u", "b", "e", ".", "c", "o", "m", "/", "f", "e", "e", "d", "s", "/", "v", "i", "d", "e", "o", "s", ".", "x", "m", "l", "?", "c", "h", "a", "n", "n", "e", "l", "_", "i", "d", "=", "d", "u", "m", "m", "y">> }

CtorArgs ==
    [channel_id : ChannelIdArgs, channel_username : UsernameArgs, rss_url : RssUrlArgs,
     timeout : {DefaultTimeout}, max_retries : 0..MaxRetries]

----------------------------------------------------------------------------
(* Time.  One unit is an hour; a datetime is its hour and whether it carries a
   timezone: the one datetime.now(timezone.utc) gives does, the one built from
   the six fields of published_parsed does not. *)

\* timedelta(hours=24)
Hours24 == 24

Aware(t) == [t |-> t, aware |-> TRUE]
Naive(t) == [t |-> t, aware |-> FALSE]

\* a >= b on datetimes: TypeError when exactly one of them carries a timezone
DatetimeGE(a, b) ==
    IF a.aware # b.aware
    THEN Raise(Exception("TypeError", "can't compare offset-naive and offset-aware datetimes", 0))
    ELSE Return("bool", a.t >= b.t)

----------------------------------------------------------------------------
(* Feed entries and _parse_video_entry *)

\* an entry without a published_parsed field, or with None in it
NoTime == -1

\* a normalisation that takes the link itself for the identifier when the entry
\* has no provider video-id field
ParseVideoEntryNoExtract(entry, clock) ==
    IF entry.title = NoneVal \/ entry.link = NoneVal
    THEN Raise(Exception("AttributeError", "title or link", 0))
    ELSE Return("VideoInfo",
           [title |-> entry.title,
            url |-> entry.link,
            video_id |-> IF entry.yt_videoid # NoneVal THEN entry.yt_videoid
                         ELSE entry.link,
            published_at |-> IF entry.published_parsed # NoTime
                             THEN Naive(entry.published_parsed) ELSE Aware(clock),
            description |-> IF entry.summary = NoneVal THEN <<>> ELSE entry.summary,
            channel_name |-> IF entry.author = NoneVal
                             THEN <<"U", "n", "k", "n", "o", "w", "n", " ", "C", "h", "a", "n", "n", "e", "l">> ELSE entry.author,
            duration |-> NoneVal])

\* _parse_video_entry(entry), with clock the reading of datetime.now(timezone.utc).
\* A field the entry lacks is NoneVal; reading it as an attribute raises AttributeError.
ParseVideoEntry(entry, clock) ==
    LET id == IF entry.yt_videoid # NoneVal
              THEN Return("str", entry.yt_videoid)
              ELSE IF entry.link = NoneVal
                   THEN Raise(Exception("AttributeError", "link", 0))
                   ELSE ExtractVideoId(entry.link)
        published_at == IF entry.published_parsed # NoTime
                        THEN Naive(entry.published_parsed)
                        ELSE Aware(clock)
    IN IF id.kind = "raise" THEN id
       ELSE IF entry.title = NoneVal THEN Raise(Exception("AttributeError", "title", 0))
       ELSE IF entry.link = NoneVal THEN Raise(Exception("AttributeError", "link", 0))
       ELSE Return("VideoInfo",
              [title |-> entry.title,
               url |-> entry.link,
               video_id |-> id.value,
               published_at |-> published_at,
               description |-> IF entry.summary = NoneVal THEN <<>> ELSE entry.summary,
               channel_name |-> IF entry.author = NoneVal
                                THEN <<"U", "n", "k", "n", "o", "w", "n", " ", "C", "h", "a", "n", "n", "e", "l">> ELSE entry.author,
               duration |-> NoneVal])

----------------------------------------------------------------------------
(* _parse_feed: one attempt, and the call's end *)

\* an attempt that accepts a feed without entries
AttemptErrorEmptyOk(resp, n) ==
    IF resp.raised THEN Exception("URLError", "fetch failed", n)
    ELSE IF resp.bozo THEN Exception("ValueError", "Invalid RSS feed", n)
    ELSE NoExc

\* what one attempt does with the answer of feedparser.parse(self.rss_url): the
\* exception it raises, or NoExc when it returns the feed.  n is the attempt's
\* number, from 1.
AttemptError(resp, n) ==
    IF resp.raised THEN Exception("URLError", "fetch failed", n)
    ELSE IF resp.bozo THEN Exception("ValueError", "Invalid RSS feed", n)
    ELSE IF resp.entries = <<>> THEN Exception("ValueError", "RSS feed contains no entries", n)
    ELSE NoExc

\* a last-attempt test that is off by one
LastAttemptOffByOne(n, max_retries) == n - 1 = max_retries

\* the attempt is the last one: attempt == self.max_retries - 1
LastAttempt(n, max_retries) == n - 1 = max_retries - 1

\* the statement after the loop, reached when the loop body never ran
RaiseAfterLoop == Raise(Exception("RequestException", "Failed to fetch RSS feed", 0))

----------------------------------------------------------------------------
(* The accessors, from the outcome pf of their _parse_feed call *)

\* a get_latest_video that takes the last entry of the feed
GetLatestVideoLastEntry(pf, clock) ==
    IF pf.kind = "raise" THEN ReturnNone
    ELSE IF pf.value.entries = <<>> THEN ReturnNone
    ELSE LET v == ParseVideoEntry(pf.value.entries[Len(pf.value.entries)], clock)
         IN IF v.kind = "raise" THEN ReturnNone ELSE v

\* get_latest_video
GetLatestVideo(pf, clock) ==
    IF pf.kind = "raise" THEN ReturnNone
    ELSE IF pf.value.entries = <<>> THEN ReturnNone
    ELSE LET v == ParseVideoEntry(pf.value.entries[1], clock)
         IN IF v.kind = "raise" THEN ReturnNone ELSE v

\* the loop of get_videos_last_24_hours from entry i on, with videos collected so far
RECURSIVE Walk24(_, _, _, _, _)
Walk24(entries, i, videos, cutoff_time, clock) ==
    IF i > Len(entries) THEN videos
    ELSE LET v == ParseVideoEntry(entries[i], clock)
             ge == DatetimeGE(v.value.published_at, cutoff_time)
         IN IF v.kind = "raise" THEN Walk24(entries, i + 1, videos, cutoff_time, clock)
            ELSE IF ge.kind = "raise"
                 THEN Walk24(entries, i + 1, videos, cutoff_time, clock)
            ELSE IF ge.value
                 THEN Walk24(entries, i + 1, Append(videos, v.value), cutoff_time, clock)
            ELSE videos

\* get_videos_last_24_hours
GetVideosLast24Hours(pf, clock) ==
    IF pf.kind = "raise" THEN Return("list", <<>>)
    ELSE Return("list", Walk24(pf.value.entries, 1, <<>>, Aware(clock - Hours24), clock))

\* get_channel_info without its try/except
GetChannelInfoNoCatch(pf) ==
    IF pf.kind = "raise" THEN pf
    ELSE Return("dict", [title |-> pf.value.feed.title, link |-> pf.value.feed.link,
                         description |-> pf.value.feed.description,
                         author |-> pf.value.feed.author])

\* get_channel_info
GetChannelInfo(pf) ==
    IF pf.kind = "raise" THEN ReturnNone
    ELSE LET f == pf.value.feed
         IN Return("dict",
              [title |-> IF f.title = NoneVal THEN <<"U", "n", "k", "n", "o", "w", "n">> ELSE f.title,
               link |-> IF f.link = NoneVal THEN <<>> ELSE f.link,
               description |-> IF f.description = NoneVal THEN <<>> ELSE f.description,
               author |-> IF f.author = NoneVal THEN <<"U", "n", "k", "n", "o", "w", "n">> ELSE f.author])

\* what the called operation gives its caller once its _parse_feed call ended with pf
FeedOpResult(op, pf, clock) ==
    CASE op = "_parse_feed" -> pf
      [] op = "get_latest_video" -> GetLatestVideo(pf, clock)
      [] op = "get_videos_last_24_hours" -> GetVideosLast24Hours(pf, clock)
      [] op = "get_channel_info" -> GetChannelInfo(pf)

FeedOps == {"_parse_feed", "get_latest_video", "get_videos_last_24_hours", "get_channel_info"}

----------------------------------------------------------------------------
(* get_transcript *)

\* sub in s, for strings
Contains(s, sub) == \E i \in 1..(Len(s) + 1) : LitAt(s, i, sub)

\* the identifier get_transcript asks captions for: extracted from a URL, or the
\* argument itself
TranscriptVideoId(video_url) ==
    IF Contains(video_url, <<"y", "o", "u", "t", "u", "b", "e", ".", "c", "o", "m">>) \/ Contains(video_url, <<"y", "o", "u", "t", "u", ".", "b", "e">>)
    THEN ExtractVideoId(video_url)
    ELSE Return("str", video_url)

\* the defaults of languages and fallback_languages
DefaultLanguages == <<"en">>
DefaultFallbackLanguages == <<"en", "en-US", "en-GB">>

EffectiveLanguages(languages) ==
    IF languages = NoneVal THEN DefaultLanguages ELSE languages
EffectiveFallback(fallback_languages) ==
    IF fallback_languages = NoneVal THEN DefaultFallbackLanguages ELSE fallback_languages

InList(x, list) == \E i \in 1..Len(list) : list[i] = x

\* a fallback loop that does not skip the languages already tried
NextFallbackNoSkip(fallback_languages, languages, j) == j

\* the fallback loop from index j on: the first language it requests, that is the
\* first not in languages; Len + 1 when there is none
RECURSIVE NextFallback(_, _, _)
NextFallback(fallback_languages, languages, j) ==
    IF j > Len(fallback_languages) THEN j
    ELSE IF InList(fallback_languages[j], languages)
         THEN NextFallback(fallback_languages, languages, j + 1)
         ELSE j

\* where the two loops stand: the phase and the index of the next request
Position(phase, idx) == [phase |-> phase, idx |-> idx]
NoPosition == Position("end", 0)

\* the position the fallback loop starts at
FallbackStart(languages, fallback_languages) ==
    LET j == NextFallback(fallback_languages, languages, 1)
    IN IF j <= Len(fallback_languages) THEN Position("fallback", j) ELSE NoPosition

\* the first request of the call
FirstPosition(languages, fallback_languages) ==
    IF languages # <<>> THEN Position("preferred", 1)
    ELSE FallbackStart(languages, fallback_languages)

\* the request after one that raised TranscriptsDisabled or NoTranscriptFound
NextPosition(pos, languages, fallback_languages) ==
    IF pos.phase = "preferred"
    THEN IF pos.idx < Len(languages)
         THEN Position("preferred", pos.idx + 1)
         ELSE FallbackStart(languages, fallback_languages)
    ELSE LET j == NextFallback(fallback_languages, languages, pos.idx + 1)
         IN IF j <= Len(fallback_languages) THEN Position("fallback", j) ELSE NoPosition

\* the language requested at a position
LangAt(pos, languages, fallback_languages) ==
    IF pos.phase = "preferred" THEN languages[pos.idx] ELSE fallback_languages[pos.idx]

\* loops that catch NoTranscriptFound only
CaughtByLoopNotFoundOnly(exc) == exc = "NoTranscriptFound"

\* the exceptions the two inner loops catch: except (TranscriptsDisabled, NoTranscriptFound)
CaughtByLoop(exc) == exc \in {"TranscriptsDisabled", "NoTranscriptFound"}

\* handlers that let IpBlocked through
TranscriptHandlersNoIpBlocked(e) == IF e.type = "IpBlocked" THEN Raise(e) ELSE ReturnNone

\* the handlers around the whole body: except VideoUnavailable, except
\* (RequestBlocked, IpBlocked), except Exception; each returns None
TranscriptHandlers(e) == ReturnNone

\* a join with no separator
RECURSIVE JoinNoSpace(_)
JoinNoSpace(texts) ==
    IF texts = <<>> THEN <<>> ELSE texts[1] \o JoinNoSpace(Tail(texts))

\* ' '.join(texts)
RECURSIVE Join(_)
Join(texts) ==
    IF texts = <<>> THEN <<>>
    ELSE IF Len(texts) = 1 THEN texts[1]
    ELSE texts[1] \o <<" ">> \o Join(Tail(texts))

\* one dict per snippet, in the snippets' order
Segments(snippets) ==
    [i \in 1..Len(snippets) |->
        [text |-> snippets[i].text, start |-> snippets[i].start,
         duration |-> snippets[i].duration]]

\* the Transcript built from the fetched track
BuildTranscript(video_id, fetched) ==
    Return("Transcript",
        [video_id |-> video_id,
         text |-> Join([i \in 1..Len(fetched.snippets) |-> fetched.snippets[i].text]),
         language |-> fetched.language_code,
         segments |-> Segments(fetched.snippets)])

----------------------------------------------------------------------------
(* What the feed endpoint and the caption service can answer *)

\* the reading of the clock during a call, and the publish times around its cutoff
ClockReading == Hours24 + 1
FreshTime == ClockReading - 1
CutoffTime == ClockReading - Hours24
StaleTime == CutoffTime - 1

Id1 == <<"j", "N", "Q", "X", "A", "C", "9", "I", "V", "R", "w">>
Id2 == <<"d", "Q", "w", "4", "w", "9", "W", "g", "X", "c", "Q">>
Id3 == <<"a", "-", "b", "_", "c", "-", "d", "_", "e", "-", "0">>
WatchUrl(id) == <<"h", "t", "t", "p", "s", ":", "/", "/", "w", "w", "w", ".", "y", "o", "u", "t", "u", "b", "e", ".", "c", "o", "m", "/", "w", "a", "t", "c", "h", "?", "v", "=">> \o id

Entry(id, link, title, published, summary, author) ==
    [yt_videoid |-> id, link |-> link, title |-> title, published_parsed |-> published,
     summary |-> summary, author |-> author]

EntryFresh == Entry(Id1, WatchUrl(Id1), <<"A">>, FreshTime, <<"s">>, <<"G", "o", "o", "g", "l", "e">>)
EntryEdge == Entry(Id2, WatchUrl(Id2), <<"B">>, CutoffTime, NoneVal, NoneVal)
EntryStale == Entry(Id3, WatchUrl(Id3), <<"C">>, StaleTime, NoneVal, <<"G", "o", "o", "g", "l", "e">>)
\* no provider video-id field and no structured publish time
EntryUndated == Entry(NoneVal, WatchUrl(Id2) \o <<"&", "t", "=", "1", "0", "s">>, <<"D">>, NoTime, <<"s">>, NoneVal)
\* no provider video-id field and a link that carries no identifier
EntryMalformed ==
    Entry(NoneVal, <<"h", "t", "t", "p", "s", ":", "/", "/", "w", "w", "w", ".", "y", "o", "u", "t", "u", "b", "e", ".", "c", "o", "m", "/", "@", "G", "o", "o", "g", "l", "e", "D", "e", "v", "e", "l", "o", "p", "e", "r", "s">>, <<"E">>, NoTime, NoneVal, NoneVal)

\* a provider video-id field that is not the identifier of the link
EntryRelinked == Entry(Id1, WatchUrl(Id3), <<"F">>, NoTime, NoneVal, NoneVal)

EntryPool ==
    {EntryFresh, EntryEdge, EntryStale, EntryUndated, EntryMalformed, EntryRelinked}

\* most entries of a feed
MaxEntries == 2

EntryLists == UNION {[1..n -> EntryPool] : n \in 0..MaxEntries}

FeedMeta(title, link, description, author) ==
    [title |-> title, link |-> link, description |-> description, author |-> author]
\* the metadata of the channel's feed, and a feed element with none of the fields
ChannelMeta ==
    FeedMeta(<<"G", "o", "o", "g", "l", "e">>, <<"h", "t", "t", "p", "s", ":", "/", "/", "w", "w", "w", ".", "y", "o", "u", "t", "u", "b", "e", ".", "c", "o", "m", "/", "c", "h", "a", "n", "n", "e", "l", "/", "U", "C", "_", "x", "5", "X", "G", "1", "O", "V", "2", "P", "6", "u", "Z", "Z", "5", "F", "S", "M", "9", "T", "t", "w">>,
             NoneVal, <<"G", "o", "o", "g", "l", "e">>)
BareMeta == FeedMeta(NoneVal, NoneVal, NoneVal, NoneVal)

Response(raised, bozo, entries, meta) ==
    [raised |-> raised, bozo |-> bozo, entries |-> entries, feed |-> meta]

\* the answers of feedparser.parse: an exception, a document with a structural
\* error (with or without entries), or a parsed feed
FeedResponses ==
    { Response(TRUE, FALSE, <<>>, BareMeta),
      Response(FALSE, TRUE, <<EntryFresh>>, ChannelMeta),
      Response(FALSE, FALSE, <<EntryUndated>>, BareMeta) }
    \cup {Response(FALSE, FALSE, e, ChannelMeta) : e \in EntryLists}

\* most cues of a caption track
MaxCues == 2

Cue(text, start, duration) == [text |-> text, start |-> start, duration |-> duration]
CuePool == { Cue(<<"H", "i">>, 0, 2), Cue(<<"a", "l", "l", " ", "g", "o", "o", "d">>, 2, 3), Cue(<<>>, 5, 1) }
CueLists == UNION {[1..n -> CuePool] : n \in 0..MaxCues}

\* the answers of YouTubeTranscriptApi.fetch(video_id, languages=[lang]): the cues
\* of a track, or one of the typed failures, or any other exception
CaptionErrors ==
    {"TranscriptsDisabled", "NoTranscriptFound", "VideoUnavailable", "RequestBlocked",
     "IpBlocked", "ConnectionError"}
CaptionAnswers ==
    {[exc |-> "-", snippets |-> c] : c \in CueLists}
    \cup {[exc |-> x, snippets |-> <<>>] : x \in CaptionErrors}

\* the FetchedTranscript, or the exception, that fetch gives for lang
CaptionResponse(answer, lang) ==
    [exc |-> answer.exc, snippets |-> answer.snippets,
     language_code |-> IF answer.exc = "-" THEN lang ELSE "-"]

\* the arguments get_transcript is called with
TranscriptUrlArgs ==
    { Id1, <<"h", "t", "t", "p", "s", ":", "/", "/", "y", "o", "u", "t", "u", ".", "b", "e", "/">> \o Id2 \o <<"?", "t", "=", "3", "0">>, <<"h", "t", "t", "p", "s", ":", "/", "/", "w", "w", "w", ".", "y", "o", "u", "t", "u", "b", "e", ".", "c", "o", "m", "/", "@", "G", "o", "o", "g", "l", "e", "D", "e", "v", "e", "l", "o", "p", "e", "r", "s">> }
LanguagesArgs == { NoneVal, <<>>, <<"es", "fr">>, <<"en", "es">>, <<"es", "es">> }
FallbackArgs == { NoneVal, <<>>, <<"es", "en">>, <<"fr", "es", "de">> }

----------------------------------------------------------------------------
(* Calls on a client *)

\* the arguments the client of the calls is constructed with
\* default of the max_retries parameter
DefaultMaxRetries == 3

\* the arguments the client of the feed calls is constructed with
FeedCtorArgs ==
    [channel_id : {NoneVal, <<"U", "C", "_", "x", "5", "X", "G", "1", "O", "V", "2", "P", "6", "u", "Z", "Z", "5", "F", "S", "M", "9", "T", "t", "w">>}, channel_username : {NoneVal},
     rss_url : {NoneVal}, timeout : {DefaultTimeout}, max_retries : 0..MaxRetries]

\* the arguments the client of the caption calls is constructed with
TranscriptCtorArgs ==
    [channel_id : {NoneVal}, channel_username : {NoneVal},
     rss_url : {NoneVal, <<"h", "t", "t", "p", "s", ":", "/", "/", "w", "w", "w", ".", "y", "o", "u", "t", "u", "b", "e", ".", "c", "o", "m", "/", "f", "e", "e", "d", "s", "/", "v", "i", "d", "e", "o", "s", ".", "x", "m", "l", "?", "c", "h", "a", "n", "n", "e", "l", "_", "i", "d", "=", "d", "u", "m", "m", "y">>},
     timeout : {DefaultTimeout}, max_retries : {DefaultMaxRetries}]

Call(op, video_url, languages, fallback_languages, video_id, pos) ==
    [op |-> op, video_url |-> video_url, languages |-> languages,
     fallback_languages |-> fallback_languages, video_id |-> video_id, pos |-> pos]
NoCall == Call("none", NoneVal, NoneVal, NoneVal, NoneVal, NoPosition)
FeedCall(op) == Call(op, NoneVal, NoneVal, NoneVal, NoneVal, NoPosition)

IdleRuntime ==
    /\ pc = "idle"
    /\ call = NoCall
    /\ now = 0
    /\ attempts = <<>>
    /\ requests = <<>>
    /\ result = Pending

InitWith(args) ==
    /\ ctor \in {[args |-> a, exc |-> "pending"] : a \in args}
    /\ client = NoneVal
    /\ IdleRuntime
    /\ xurl = <<>>
    /\ xres = Pending

FeedInit == InitWith(FeedCtorArgs)
TranscriptInit == InitWith(TranscriptCtorArgs)
Init == InitWith(FeedCtorArgs \cup TranscriptCtorArgs)

\* YouTubeScraper(...) is called
New ==
    /\ ctor.exc = "pending"
    /\ LET r == Construct(ctor.args)
       IN /\ ctor' = [ctor EXCEPT !.exc = r.exc.type]
          /\ client' = r.value
    /\ UNCHANGED <<pc, call, now, attempts, requests, result, xurl, xres>>

\* a caller starts _parse_feed or one of the three accessors that use it; with
\* max_retries <= 0 the loop body never runs and the call ends at once
CallFeedOp(op) ==
    /\ pc = "idle" /\ ctor.exc = "-"
    /\ call' = FeedCall(op)
    /\ now' = ClockReading
    /\ IF client.max_retries <= 0
       THEN /\ pc' = "done"
            /\ result' = FeedOpResult(op, RaiseAfterLoop, ClockReading)
       ELSE /\ pc' = "feed"
            /\ result' = Pending
    /\ UNCHANGED <<ctor, client, attempts, requests, xurl, xres>>

\* one iteration of the loop of _parse_feed, and what follows it when it is the last
FetchAttempt(resp) ==
    /\ pc = "feed"
    /\ LET n == Len(attempts) + 1
           e == AttemptError(resp, n)
           end(pf) == /\ pc' = "done"
                      /\ result' = FeedOpResult(call.op, pf, now)
       IN /\ attempts' = Append(attempts,
                [url |-> client.rss_url, response |-> resp, error |-> e])
          /\ IF e = NoExc THEN end(Return("feed", resp))
             ELSE IF LastAttempt(n, client.max_retries) THEN end(Raise(e))
             ELSE IF n < client.max_retries THEN pc' = pc /\ result' = result
             ELSE end(RaiseAfterLoop)
    /\ UNCHANGED <<ctor, client, call, now, requests, xurl, xres>>

\* a caller starts get_transcript; the call ends at once when no identifier can be
\* extracted or when neither list has a language to request
CallGetTranscript(video_url, languages, fallback_languages) ==
    /\ pc = "idle" /\ ctor.exc = "-"
    /\ LET id == TranscriptVideoId(video_url)
           langs == EffectiveLanguages(languages)
           fb == EffectiveFallback(fallback_languages)
           pos == IF id.kind = "raise" THEN NoPosition ELSE FirstPosition(langs, fb)
       IN /\ call' = Call("get_transcript", video_url, langs, fb, id.value, pos)
          /\ IF id.kind = "raise"
             THEN pc' = "done" /\ result' = TranscriptHandlers(id.exc)
             ELSE IF pos = NoPosition
                  THEN pc' = "done" /\ result' = ReturnNone
                  ELSE pc' = "transcript" /\ result' = Pending
    /\ UNCHANGED <<ctor, client, now, attempts, requests, xurl, xres>>

\* one request to the caption service, and what follows it when it ends the call
RequestCaption(answer) ==
    /\ pc = "transcript"
    /\ LET lang == LangAt(call.pos, call.languages, call.fallback_languages)
           next == NextPosition(call.pos, call.languages, call.fallback_languages)
           resp == CaptionResponse(answer, lang)
       IN /\ requests' = Append(requests,
                [video_id |-> call.video_id, languages |-> <<lang>>,
                 phase |-> call.pos.phase, answer |-> resp])
          /\ IF resp.exc = "-"
             THEN /\ pc' = "done"
                  /\ result' = BuildTranscript(call.video_id, resp)
                  /\ call' = call
             ELSE IF CaughtByLoop(resp.exc)
                  THEN IF next = NoPosition
                       THEN pc' = "done" /\ result' = ReturnNone /\ call' = call
                       ELSE /\ pc' = pc /\ result' = result
                            /\ call' = [call EXCEPT !.pos = next]
                  ELSE /\ pc' = "done"
                       /\ result' = TranscriptHandlers(Exception(resp.exc, "caption service", 0))
                       /\ call' = call
    /\ UNCHANGED <<ctor, client, now, attempts, xurl, xres>>

\* the call is over and the caller goes on
ReturnToCaller ==
    /\ pc = "done"
    /\ pc' = "idle"
    /\ call' = NoCall
    /\ now' = 0
    /\ attempts' = <<>>
    /\ requests' = <<>>
    /\ result' = Pending
    /\ UNCHANGED <<ctor, client, xurl, xres>>

FeedNext ==
    \/ New
    \/ \E op \in FeedOps : CallFeedOp(op)
    \/ \E resp \in FeedResponses : FetchAttempt(resp)
    \/ ReturnToCaller

TranscriptNext ==
    \/ New
    \/ \E u \in TranscriptUrlArgs, l \in LanguagesArgs, f \in FallbackArgs :
          CallGetTranscript(u, l, f)
    \/ \E answer \in CaptionAnswers : RequestCaption(answer)
    \/ ReturnToCaller

Next == FeedNext \/ TranscriptNext

SpecFeed == FeedInit /\ [][FeedNext]_vars
SpecTranscript == TranscriptInit /\ [][TranscriptNext]_vars
Spec == Init /\ [][Next]_vars

----------------------------------------------------------------------------
(* A direct call of the static method _extract_video_id *)

ExtractInit ==
    /\ ctor = [args |-> NoneVal, exc |-> "uncalled"]
    /\ client = NoneVal
    /\ IdleRuntime
    /\ xurl \in ExtractInputs
    /\ xres = Pending

CallExtractVideoId ==
    /\ xres = Pending
    /\ xres' = ExtractVideoId(xurl)
    /\ UNCHANGED <<ctor, client, pc, call, now, attempts, requests, result, xurl>>

ExtractNext == CallExtractVideoId

SpecExtract == ExtractInit /\ [][ExtractNext]_vars

----------------------------------------------------------------------------
(* Construction of a client *)

ConstructInit ==
    /\ ctor \in {[args |-> a, exc |-> "pending"] : a \in CtorArgs}
    /\ client = NoneVal
    /\ IdleRuntime
    /\ xurl = <<>>
    /\ xres = Pending

ConstructNext == New

SpecConstruct == ConstructInit /\ [][ConstructNext]_vars

----------------------------------------------------------------------------
(* Claims about _extract_video_id, checked under SpecExtract *)

\* the three places the specification names
Markers == { <<"v", "=">>, <<"/", "e", "m", "b", "e", "d", "/">>, <<"y", "o", "u", "t", "u", ".", "b", "e", "/">> }

\* positions of s that directly follow one of the markers
AfterMarker(s) ==
    {j \in 1..(Len(s) + 1) : \E m \in Markers : j > Len(m) /\ LitAt(s, j - Len(m), m)}

\* the 11-character identifiers s carries directly after a marker: eleven
\* identifier characters, then the end of s or another kind of character
CarriedIds(s) ==
    {SubSeq(s, j, j + IdLen - 1) :
        j \in {k \in AfterMarker(s) :
                  /\ GroupAt(s, k)
                  /\ (k + IdLen <= Len(s) => s[k + IdLen] \notin IdChars)}}

\* C7: for every URL that carries an 11-character identifier after v=, /embed/
\* or youtu.be/, _extract_video_id returns exactly that identifier, whatever
\* text precedes or follows it.
C7_ReturnsCarriedId ==
    (xres # Pending /\ CarriedIds(xurl) # {})
        => (xres.kind = "return" /\ CarriedIds(xurl) = {xres.value})

\* C8: for every URL with no 11 identifier characters directly after v=, /embed/
\* or youtu.be/, _extract_video_id raises ValueError and returns no identifier.
C8_NoIdRaisesValueError ==
    (xres # Pending /\ ~(\E j \in AfterMarker(xurl) : GroupAt(xurl, j)))
        => (xres.kind = "raise" /\ xres.exc.type = "ValueError")

----------------------------------------------------------------------------
(* Claims about construction, checked under SpecConstruct *)

Constructed == ctor.exc = "-"
ConstructionFailed == ctor.exc = "ValueError"

\* s with exactly one leading "@" removed, when it has one
StripOneAt(s) == IF s # <<>> /\ s[1] = "@" THEN SubSeq(s, 2, Len(s)) ELSE s

\* t is s without its whole run of leading "@"
IsAllAtStripped(s, t) ==
    \E k \in 0..Len(s) :
        /\ \A i \in 1..k : s[i] = "@"
        /\ (k < Len(s) => s[k + 1] # "@")
        /\ t = SubSeq(s, k + 1, Len(s))

\* what C9 says of everything but the '@' of channel_username
C9_Precedence(a) ==
    /\ Truthy(a.rss_url) => (Constructed /\ client.rss_url = a.rss_url)
    /\ (~Truthy(a.rss_url) /\ Truthy(a.channel_id))
          => (Constructed /\ client.rss_url = FeedUrlChannelId \o a.channel_id)
    /\ (~Truthy(a.rss_url) /\ ~Truthy(a.channel_id) /\ ~Truthy(a.channel_username))
          => (ConstructionFailed /\ client = NoneVal)

\* C9 as stated: rss_url verbatim and first; else channel_id; else channel_username
\* with one leading '@' stripped; else ValueError and no client.
C9_OneAtStripped ==
    ctor.exc # "pending" =>
        LET a == ctor.args IN
        /\ C9_Precedence(a)
        /\ (~Truthy(a.rss_url) /\ ~Truthy(a.channel_id) /\ Truthy(a.channel_username))
              => (Constructed
                  /\ client.rss_url = FeedUrlUser \o StripOneAt(a.channel_username))

\* C9 as amended: rss_url verbatim and first; else channel_id; else channel_username
\* with every leading '@' stripped; else ValueError and no client.
C9_AddressResolution ==
    ctor.exc # "pending" =>
        LET a == ctor.args IN
        /\ C9_Precedence(a)
        /\ (~Truthy(a.rss_url) /\ ~Truthy(a.channel_id) /\ Truthy(a.channel_username))
              => /\ Constructed
                 /\ SubSeq(client.rss_url, 1, Len(FeedUrlUser)) = FeedUrlUser
                 /\ IsAllAtStripped(a.channel_username,
                        SubSeq(client.rss_url, Len(FeedUrlUser) + 1, Len(client.rss_url)))

\* a client built from a channel_username that starts with two '@'
C9_Witness ==
    /\ Constructed
    /\ ~Truthy(ctor.args.rss_url) /\ ~Truthy(ctor.args.channel_id)
    /\ Len(ctor.args.channel_username) >= 3
    /\ ctor.args.channel_username[1] = "@" /\ ctor.args.channel_username[2] = "@"
    /\ ctor.args.channel_username[3] # "@"

----------------------------------------------------------------------------
(* Claims about _parse_feed and get_videos_last_24_hours, checked under SpecFeed *)

\* the answer of an attempt is no well-formed feed with an entry
FailedResponse(resp) == resp.raised \/ resp.bozo \/ resp.entries = <<>>

AllAttemptsFailed == \A i \in 1..Len(attempts) : FailedResponse(attempts[i].response)

ParseFeedDone == pc = "done" /\ call.op = "_parse_feed"

\* C5: a _parse_feed call makes at most max_retries attempts, each a fetch of the
\* resolved address; a failed attempt (an exception, a structural error, no
\* entries) is followed by another while attempts remain; the first attempt with a
\* well-formed feed of at least one entry ends the call, which returns that feed.
C5_BoundedRetry ==
    (pc \in {"feed", "done"} /\ call.op \in FeedOps) =>
        /\ Len(attempts) <= client.max_retries
        /\ \A i \in 1..Len(attempts) : attempts[i].url = client.rss_url
        /\ \A i \in 1..(Len(attempts) - 1) : FailedResponse(attempts[i].response)
        /\ pc = "feed" => (AllAttemptsFailed /\ Len(attempts) < client.max_retries)
        /\ (pc = "done" /\ AllAttemptsFailed) => Len(attempts) = client.max_retries
        /\ (ParseFeedDone /\ ~AllAttemptsFailed)
              => /\ result.kind = "return" /\ result.type = "feed"
                 /\ result.value = attempts[Len(attempts)].response
                 /\ ~result.value.bozo /\ result.value.entries # <<>>
        /\ (ParseFeedDone /\ result.kind = "return") => ~AllAttemptsFailed

\* a call that returned the feed of its third attempt after two failed ones
C5_Witness ==
    /\ ParseFeedDone /\ client.max_retries = 3 /\ Len(attempts) = 3
    /\ attempts[1].response.bozo /\ attempts[2].response.raised
    /\ result.kind = "return" /\ Len(result.value.entries) = 2

\* the exception an attempt with this answer raises
RaisedFor(resp, e) ==
    /\ resp.raised => e.type = "URLError"
    /\ (~resp.raised /\ resp.bozo) => (e.type = "ValueError" /\ e.msg = "Invalid RSS feed")
    /\ (~resp.raised /\ ~resp.bozo)
          => (e.type = "ValueError" /\ e.msg = "RSS feed contains no entries")

\* the call raised the exception of its most recent attempt
RaisedLastError ==
    /\ result.kind = "raise"
    /\ Len(attempts) > 0
    /\ result.exc.origin = Len(attempts)
    /\ RaisedFor(attempts[Len(attempts)].response, result.exc)

\* C6 as stated: when every attempt fails, for every max_retries, the call raises
\* the error of the last failed attempt.
C6_RaisesLastErrorAlways ==
    (ParseFeedDone /\ AllAttemptsFailed) => RaisedLastError

\* C6 as amended: when every attempt fails and max_retries >= 1, the call raises the
\* error of the last failed attempt; with max_retries <= 0 no attempt is made and
\* the call raises RequestException("Failed to fetch RSS feed").
C6_RaisesLastError ==
    (ParseFeedDone /\ AllAttemptsFailed) =>
        /\ client.max_retries >= 1 => RaisedLastError
        /\ client.max_retries <= 0
              => /\ attempts = <<>>
                 /\ result.kind = "raise" /\ result.exc.type = "RequestException"

\* three failed attempts of three kinds, the last one a feed without entries
C6_Witness ==
    /\ ParseFeedDone /\ client.max_retries = 3 /\ Len(attempts) = 3
    /\ attempts[1].response.raised /\ attempts[2].response.bozo
    /\ attempts[3].response.entries = <<>> /\ ~attempts[3].response.raised
    /\ result.kind = "raise"

\* the publish time C2 speaks of: the structured timestamp, or the current time
PublishTime(entry) ==
    IF entry.published_parsed # NoTime THEN entry.published_parsed ELSE now

NewestFirst(entries) ==
    \A i \in 1..Len(entries) : \A j \in i..Len(entries) :
        PublishTime(entries[i]) >= PublishTime(entries[j])

\* how many leading entries are not older than now minus 24 hours
RECURSIVE LeadingRecent(_, _)
LeadingRecent(entries, i) ==
    IF i > Len(entries) \/ PublishTime(entries[i]) < now - Hours24
    THEN i - 1
    ELSE LeadingRecent(entries, i + 1)

\* C2: on a fetched feed sorted newest-first (every entry of which normalises),
\* get_videos_last_24_hours returns, in feed order, exactly the records of the
\* leading entries up to the first one older than now minus 24 hours, whether or
\* not the entries carry a structured publish timestamp.
C2_ReturnsRecentPrefix ==
    (pc = "done" /\ call.op = "get_videos_last_24_hours" /\ ~AllAttemptsFailed) =>
        LET entries == attempts[Len(attempts)].response.entries
        IN (/\ NewestFirst(entries)
            /\ \A i \in 1..Len(entries) : ParseVideoEntry(entries[i], now).kind = "return")
           => /\ result.kind = "return"
              /\ result.value = [i \in 1..LeadingRecent(entries, 1) |->
                                    ParseVideoEntry(entries[i], now).value]

----------------------------------------------------------------------------
(* Claims about get_transcript, checked under SpecTranscript *)

InTranscriptCall == pc \in {"transcript", "done"} /\ call.op = "get_transcript"
TranscriptDone == pc = "done" /\ call.op = "get_transcript"

RequestFailed(r) == r.answer.exc # "-"

\* how many requests the preferred phase has made
PreferredCount == Cardinality({i \in 1..Len(requests) : requests[i].phase = "preferred"})

\* C3: the preferred languages are requested in their declared order, one language
\* per request; no fallback language is requested before every preferred language
\* was requested and failed; no language of the preferred list is requested in the
\* fallback phase.
C3_PreferredBeforeFallback ==
    InTranscriptCall =>
        /\ \A i \in 1..Len(requests) : Len(requests[i].languages) = 1
        /\ PreferredCount <= Len(call.languages)
        /\ \A i \in 1..PreferredCount :
              /\ requests[i].phase = "preferred"
              /\ requests[i].languages[1] = call.languages[i]
        /\ \A i \in 1..Len(requests) :
              requests[i].phase = "fallback" =>
                 /\ i > Len(call.languages)
                 /\ \A k \in 1..Len(call.languages) :
                       /\ requests[k].languages = <<call.languages[k]>>
                       /\ RequestFailed(requests[k])
                 /\ ~InList(requests[i].languages[1], call.languages)

\* both preferred languages failed, and the fallback phase asked for the one
\* fallback language that is not preferred
C3_Witness ==
    /\ TranscriptDone
    /\ call.languages = <<"es", "fr">> /\ call.fallback_languages = <<"fr", "es", "de">>
    /\ Len(requests) = 3
    /\ requests[3].phase = "fallback" /\ requests[3].languages = <<"de">>

\* the four failure conditions of the caption service
Conditions ==
    [disabled |-> {"TranscriptsDisabled"}, notfound |-> {"NoTranscriptFound"},
     unavailable |-> {"VideoUnavailable"}, blocked |-> {"RequestBlocked", "IpBlocked"}]

AnsweredWith(c) ==
    /\ requests # <<>>
    /\ \A i \in 1..Len(requests) : requests[i].answer.exc \in Conditions[c]

\* C4: for each of the four conditions (disabled, not found, unavailable, blocked),
\* a get_transcript call whose requests are answered with it returns None and
\* raises nothing.
C4_FailureGivesNone ==
    \A c \in DOMAIN Conditions :
        (TranscriptDone /\ AnsweredWith(c)) => result = ReturnNone

\* a call that ended on an IpBlocked answer to its first request
C4_Witness ==
    /\ TranscriptDone /\ AnsweredWith("blocked")
    /\ requests[1].answer.exc = "IpBlocked"
    /\ result.kind = "return"

\* the length of the texts of segs[1..n] with a separator after each
RECURSIVE Offset(_, _)
Offset(segs, n) ==
    IF n = 0 THEN 0 ELSE Offset(segs, n - 1) + Len(segs[n].text) + 1

\* text is the texts of segs, in order, with one space between neighbours
JoinedBySpaces(text, segs) ==
    /\ Len(text) = IF segs = <<>> THEN 0 ELSE Offset(segs, Len(segs)) - 1
    /\ \A i \in 1..Len(segs) :
          /\ SubSeq(text, Offset(segs, i - 1) + 1, Offset(segs, i) - 1) = segs[i].text
          /\ i < Len(segs) => text[Offset(segs, i)] = " "

\* C10: a returned Transcript has one {text, start, duration} segment per cue of
\* the fetched track, in the track's order, and its text is the segments' texts
\* joined by single spaces.
C10_TextJoinsSegments ==
    (TranscriptDone /\ result.type = "Transcript") =>
        LET track == requests[Len(requests)].answer
            t == result.value
        IN /\ track.exc = "-"
           /\ Len(t.segments) = Len(track.snippets)
           /\ \A i \in 1..Len(t.segments) :
                 /\ DOMAIN t.segments[i] = {"text", "start", "duration"}
                 /\ t.segments[i].text = track.snippets[i].text
                 /\ t.segments[i].start = track.snippets[i].start
                 /\ t.segments[i].duration = track.snippets[i].duration
           /\ JoinedBySpaces(t.text, t.segments)

\* a Transcript of two cues, the first of which has a space in its text
C10_Witness ==
    /\ TranscriptDone /\ result.type = "Transcript"
    /\ Len(result.value.segments) = 2
    /\ result.value.segments[1].text = <<"a", "l", "l", " ", "g", "o", "o", "d">>
    /\ result.value.segments[2].text = <<"H", "i">>
    /\ result.value.text = <<"a", "l", "l", " ", "g", "o", "o", "d", " ", "H", "i">>

----------------------------------------------------------------------------
(* The claim about the four accessors, checked under Spec *)

Accessors ==
    {"get_latest_video", "get_videos_last_24_hours", "get_transcript", "get_channel_info"}

AccessorDone(op) == pc = "done" /\ call.op = op

\* the _parse_feed call of the accessor raised
FeedFetchFailed == AllAttemptsFailed

\* the entries of the feed the accessor got
FetchedEntries == attempts[Len(attempts)].response.entries

\* entry i of the fetched feed fails to normalise
EntryFails(i) == ParseVideoEntry(FetchedEntries[i], now).kind = "raise"

\* no identifier could be extracted from the argument of get_transcript
ExtractionFailed == call.video_id = NoneVal

\* an internal step of the finished call failed
InternalStepFailed ==
    CASE call.op = "get_latest_video" -> FeedFetchFailed \/ EntryFails(1)
      [] call.op = "get_channel_info" -> FeedFetchFailed
      [] call.op = "get_videos_last_24_hours" ->
            FeedFetchFailed \/ \E i \in 1..Len(FetchedEntries) : EntryFails(i)
      [] call.op = "get_transcript" ->
            ExtractionFailed \/ \E i \in 1..Len(requests) : RequestFailed(requests[i])

\* the value that stands for failure: None, and for get_videos_last_24_hours []
FailureValue ==
    IF call.op = "get_videos_last_24_hours"
    THEN result.type = "list" /\ result.value = <<>>
    ELSE result = ReturnNone

\* C1 as stated: no accessor propagates an exception, and each returns None (an
\* empty list for get_videos_last_24_hours) whenever an internal step fails.
C1_FailureValueOnAnyFailure ==
    (pc = "done" /\ call.op \in Accessors) =>
        /\ result.kind = "return"
        /\ InternalStepFailed => FailureValue

\* the step whose failure ends the call failed: the feed fetch; for
\* get_latest_video also the first entry; for get_transcript the extraction, or the
\* last request, or there being no language to request
EndingStepFailed ==
    CASE call.op = "get_latest_video" -> FeedFetchFailed \/ EntryFails(1)
      [] call.op = "get_channel_info" -> FeedFetchFailed
      [] call.op = "get_videos_last_24_hours" -> FeedFetchFailed
      [] call.op = "get_transcript" ->
            \/ ExtractionFailed
            \/ requests = <<>>
            \/ RequestFailed(requests[Len(requests)])

\* C1 as amended: no accessor propagates an exception; each returns None (an empty
\* list for get_videos_last_24_hours) whenever the step that ends the call fails;
\* get_videos_last_24_hours skips an entry that fails and get_transcript goes on
\* to the next language after a request that fails with disabled or not found.
C1_NoExceptionEscapes ==
    (pc = "done" /\ call.op \in Accessors) =>
        /\ result.kind = "return"
        /\ EndingStepFailed => FailureValue

\* get_videos_last_24_hours skipped a malformed entry and returned the next one
C1_Witness ==
    /\ AccessorDone("get_videos_last_24_hours") /\ ~FeedFetchFailed
    /\ Len(FetchedEntries) = 2 /\ EntryFails(1) /\ ~EntryFails(2)
    /\ result.kind = "return" /\ Len(result.value) = 1

----------------------------------------------------------------------------
(* The claim about identifiers, checked under Spec *)

\* the records the finished call returned, with the entries they were made from
ReturnedRecords ==
    IF AccessorDone("get_latest_video") /\ result.type = "VideoInfo"
    THEN {result.value}
    ELSE IF AccessorDone("get_videos_last_24_hours") /\ result.type = "list"
    THEN {result.value[i] : i \in 1..Len(result.value)}
    ELSE {}

\* _extract_video_id applied to the record's url gives the record's video_id
UrlGivesVideoId(v) ==
    LET x == ExtractVideoId(v.url)
    IN x.kind = "return" /\ x.value = v.video_id

\* the identifier every request of the call was made with is the Transcript's
TranscriptEchoesRequestedId ==
    (TranscriptDone /\ result.type = "Transcript") =>
        /\ requests # <<>>
        /\ \A i \in 1..Len(requests) : requests[i].video_id = result.value.video_id

EntriesOf(v) ==
    {i \in 1..Len(FetchedEntries) :
        FetchedEntries[i].link = v.url /\ FetchedEntries[i].title = v.title}

\* the entry has no provider video-id field, or one that is the identifier
\* _extract_video_id finds in the entry's link
FieldAgreesWithLink(entry) ==
    \/ entry.yt_videoid = NoneVal
    \/ ExtractVideoId(entry.link) = Return("str", entry.yt_videoid)

----------------------------------------------------------------------------
(* The claim about get_latest_video, checked under SpecFeed *)

\* the record of an entry that normalises, field by field
IsRecordOf(v, entry) ==
    /\ v.title = entry.title
    /\ v.url = entry.link
    /\ v.video_id = IF entry.yt_videoid # NoneVal THEN entry.yt_videoid
                    ELSE ExtractVideoId(entry.link).value
    /\ v.published_at.t = PublishTime(entry)
    /\ v.description = IF entry.summary = NoneVal THEN <<>> ELSE entry.summary
    /\ v.channel_name = IF entry.author = NoneVal THEN <<"U", "n", "k", "n", "o", "w", "n", " ", "C", "h", "a", "n", "n", "e", "l">> ELSE entry.author

\* some attempt of the call was answered with a well-formed feed without entries
SawEmptyFeed ==
    \E i \in 1..Len(attempts) :
        LET r == attempts[i].response
        IN ~r.raised /\ ~r.bozo /\ r.entries = <<>>

\* C12: get_latest_video returns the normalised record of the first entry of the
\* feed its own _parse_feed call obtained, whenever that call succeeds and the
\* first entry normalises; when the feed has no entries it returns None, not an
\* error.
C12_LatestIsFirstEntry ==
    AccessorDone("get_latest_video") =>
        /\ (~FeedFetchFailed /\ ~EntryFails(1))
              => /\ result.kind = "return" /\ result.type = "VideoInfo"
                 /\ IsRecordOf(result.value, FetchedEntries[1])
        /\ (FeedFetchFailed /\ SawEmptyFeed) => result = ReturnNone

\* the first attempt gave a feed without entries, the second a feed of two entries,
\* and the record of the first of them was returned
C12_Witness ==
    /\ AccessorDone("get_latest_video") /\ Len(attempts) = 2
    /\ attempts[1].response.entries = <<>> /\ ~attempts[1].response.raised
    /\ FetchedEntries = <<EntryStale, EntryUndated>>
    /\ result.type = "VideoInfo" /\ result.value.video_id = Id3

----------------------------------------------------------------------------
(* The claim about the fallback phase, checked under SpecTranscript *)

\* the languages a call can request, in the order it requests them: the preferred
\* ones, then the fallback ones that are not preferred
RequestOrder ==
    call.languages
        \o SelectSeq(call.fallback_languages, LAMBDA l : ~InList(l, call.languages))

\* the call made its requests in that order, and each but the last failed
RequestsFollowOrder ==
    /\ Len(requests) <= Len(RequestOrder)
    /\ \A i \in 1..Len(requests) :
          /\ requests[i].languages = <<RequestOrder[i]>>
          /\ requests[i].phase = IF i <= Len(call.languages) THEN "preferred" ELSE "fallback"
          /\ i < Len(requests) => RequestFailed(requests[i])

\* every language of both lists was requested and failed
AllLanguagesFailed ==
    /\ Len(requests) = Len(RequestOrder)
    /\ \A i \in 1..Len(requests) : RequestFailed(requests[i])

\* the call returned the track of the first language that succeeded
ReturnedFirstSuccess ==
    /\ result.type = "Transcript"
    /\ requests # <<>> /\ ~RequestFailed(requests[Len(requests)])
    /\ result.value.language = requests[Len(requests)].answer.language_code
    /\ result.value.segments = Segments(requests[Len(requests)].answer.snippets)

\* C13 as stated: when no preferred request produces a track the fallback phase
\* runs, requesting every fallback language that is not preferred, in order, until
\* the first success; the call returns None only after every language of both
\* lists has failed, and otherwise the track of the first language that succeeded.
C13_NoneOnlyAfterAllFailed ==
    (TranscriptDone /\ ~ExtractionFailed) =>
        /\ RequestsFollowOrder
        /\ IF result = ReturnNone THEN AllLanguagesFailed ELSE ReturnedFirstSuccess

\* the request failed with one of the two conditions the loops catch
FailedSoftly(r) == r.answer.exc \in {"TranscriptsDisabled", "NoTranscriptFound"}

\* C13 as amended: when every preferred request fails with disabled or not found,
\* the fallback phase runs, requesting every fallback language that is not
\* preferred, in order, until the first success; a request that fails in any other
\* way (video unavailable, blocked, another exception) ends the call with None at
\* once; the call returns None only then or after every language of both lists has
\* failed, and otherwise the track of the first language that succeeded.
C13_FallbackPhase ==
    /\ (pc = "transcript" /\ call.op = "get_transcript")
          => /\ RequestsFollowOrder /\ Len(requests) < Len(RequestOrder)
             /\ \A i \in 1..Len(requests) : FailedSoftly(requests[i])
    /\ (TranscriptDone /\ ~ExtractionFailed)
          => /\ RequestsFollowOrder
             /\ \A i \in 1..(Len(requests) - 1) : FailedSoftly(requests[i])
             /\ IF result = ReturnNone
                THEN \/ AllLanguagesFailed
                     \/ /\ requests # <<>>
                        /\ RequestFailed(requests[Len(requests)])
                        /\ ~FailedSoftly(requests[Len(requests)])
                ELSE ReturnedFirstSuccess

\* both preferred languages failed, the first fallback language that is not
\* preferred failed too, and the call returned the track of the next one
C13_Witness ==
    /\ TranscriptDone
    /\ call.languages = <<"en", "es">> /\ call.fallback_languages = <<"en", "en-US", "en-GB">>
    /\ Len(requests) = 4
    /\ requests[3].languages = <<"en-US">> /\ requests[4].languages = <<"en-GB">>
    /\ result.type = "Transcript" /\ result.value.language = "en-GB"
====
